---- MODULE Spec2Model ----
(***************************************************************************)
(* Langevin dynamics sampler of score_models/sampler.py.                   *)
(*                                                                         *)
(* An array is a record [shape, data]: shape is the tuple of dimension     *)
(* sizes and data the elements in row-major order.  A PRNG key is the path *)
(* of splits that produced it.  Floating point values are modelled by      *)
(* integers; epsilon is drawn from values whose 2*epsilon is a perfect     *)
(* square, so that sqrt(2 * epsilon) is exact.                             *)
(***************************************************************************)
EXTENDS Integers, Sequences, FiniteSets, Bags, TLC

VARIABLES
    args,          \* the arguments of the current call of langevin_dynamics
    pc,            \* "call" | "sampling" | "returned" | "raised"
    err,           \* the exception raised ("" when none)
    sample_shape,  \* the local sample_shape after line 64
    starter_xs,    \* the local starter_xs after line 68
    keys,          \* keys of line 100: one key per chain
    cpc,           \* per chain: "start" | "scan" | "done"
    x,             \* per chain: the carry of lax.scan
    step_keys,     \* per chain: keys of line 96
    ys,            \* per chain: the prev_x collected by lax.scan so far
    outs,          \* per chain: what langevin_dynamics_one_chain returned
    result,        \* the returned tuple (<<>> when nothing was returned)
    draws,         \* bag of the keys random.normal was called with in this call
    splits,        \* bag of the keys random.split was called with in this call
    score_calls,   \* number of evaluations of score_func in this call
    prev,          \* outcome of the previous call with the same arguments
    calls          \* number of calls started

vars == <<args, pc, err, sample_shape, starter_xs, keys, cpc, x, step_keys, ys,
          outs, result, draws, splits, score_calls, prev, calls>>

\* ------------------------------------------------------------------ bounds
MaxChains == 2
MaxSamples == 2
MaxDim == 2

\* ------------------------------------------------------------------ arrays
NoneShape == <<-1>>
NoneArray == [shape |-> <<-1>>, data |-> <<>>]
Incompatible == <<-1>>
NoResult == <<>>
NoOutcome == [pc |-> "none", err |-> "", result |-> <<>>]

Max(a, b) == IF a >= b THEN a ELSE b

RECURSIVE Prod(_)
Prod(s) == IF s = <<>> THEN 1 ELSE s[1] * Prod(Tail(s))

RECURSIVE Flatten(_)
Flatten(ss) == IF ss = <<>> THEN <<>> ELSE ss[1] \o Flatten(Tail(ss))

RECURSIVE SumSeq(_)
SumSeq(s) == IF s = <<>> THEN 0 ELSE s[1] + SumSeq(Tail(s))

\* shape[1:]
Rest(shape) == SubSeq(shape, 2, Len(shape))

Stride(shape, k) == Prod(SubSeq(shape, k + 1, Len(shape)))

\* the multi-index (0-based) of the 0-based flat position f in an array of this shape
IndexOf(shape, f) == [k \in 1..Len(shape) |-> (f \div Stride(shape, k)) % shape[k]]

PadLeft(shape, n) == [k \in 1..(n - Len(shape)) |-> 1] \o shape

\* numpy broadcasting of two shapes
BroadcastShape(a, b) ==
    LET n == Max(Len(a), Len(b))
        pa == PadLeft(a, n)
        pb == PadLeft(b, n)
    IN  IF \A k \in 1..n : pa[k] = pb[k] \/ pa[k] = 1 \/ pb[k] = 1
        THEN [k \in 1..n |-> Max(pa[k], pb[k])]
        ELSE Incompatible

BroadcastOffset(ashape, shape, idx) ==
    LET off == Len(shape) - Len(ashape)
    IN  SumSeq([k \in 1..Len(ashape) |->
                  (IF ashape[k] = 1 THEN 0 ELSE idx[k + off]) * Stride(ashape, k)])

BroadcastTo(a, shape) ==
    IF a.shape = shape THEN a
    ELSE [shape |-> shape,
          data  |-> [f \in 1..Prod(shape) |->
                       a.data[1 + BroadcastOffset(a.shape, shape, IndexOf(shape, f - 1))]]]

\* a + b
Add(a, b) ==
    LET s  == BroadcastShape(a.shape, b.shape)
        ba == BroadcastTo(a, s)
        bb == BroadcastTo(b, s)
    IN  [shape |-> s, data |-> [f \in 1..Prod(s) |-> ba.data[f] + bb.data[f]]]

\* c * a, c a scalar
Times(c, a) == [shape |-> a.shape, data |-> [f \in 1..Len(a.data) |-> c * a.data[f]]]

\* a[i], i counted from 1
Row(a, i) ==
    LET n == Prod(Rest(a.shape))
    IN  [shape |-> Rest(a.shape), data |-> SubSeq(a.data, (i - 1) * n + 1, i * n)]

\* equally shaped arrays stacked along a new leading axis (lax.scan's ys, vmap's outputs)
Stack(rows) ==
    [shape |-> <<Len(rows)>> \o rows[1].shape,
     data  |-> Flatten([r \in 1..Len(rows) |-> rows[r].data])]

\* np.atleast_2d
AtLeast2d(a) ==
    IF Len(a.shape) = 0 THEN [shape |-> <<1, 1>>, data |-> a.data]
    ELSE IF Len(a.shape) = 1 THEN [shape |-> <<1>> \o a.shape, data |-> a.data]
    ELSE a

\* np.concatenate(arrs, axis=0)
Concatenate0(arrs) ==
    [shape |-> <<SumSeq([r \in 1..Len(arrs) |-> arrs[r].shape[1]])>> \o Rest(arrs[1].shape),
     data  |-> Flatten([r \in 1..Len(arrs) |-> arrs[r].data])]

\* np.vstack(a) of an array a: its rows, each made at least 2-d, concatenated on axis 0
VstackRows(a) == [r \in 1..a.shape[1] |-> AtLeast2d(Row(a, r))]
Vstack(a) == Concatenate0(VstackRows(a))

\* ------------------------------------------------------------------ PRNG
RECURSIVE KeyHash(_)
KeyHash(key) == IF key = <<>> THEN 1 ELSE (3 * KeyHash(SubSeq(key, 1, Len(key) - 1)) + key[Len(key)] + 1) % 11

\* random.split(key, n): n keys derived from key
Split(key, n) == [i \in 1..n |-> key \o <<n, i>>]

\* random.normal(key, shape): a fixed function of the key and the shape
NormalAt(key, shape, f) == ((KeyHash(key) * f + f + Len(shape) + Prod(shape)) % 7) - 3
Normal(key, shape) ==
    [shape |-> shape, data |-> [f \in 1..Prod(shape) |-> NormalAt(key, shape, f)]]

\* ------------------------------------------------------------------ inputs
Dims == {<<>>} \cup {<<a>> : a \in 1..MaxDim} \cup {<<a, b>> : a \in 1..MaxDim, b \in 1..MaxDim}
Patterns == {"ramp"}
Fill(shape, pattern) ==
    [shape |-> shape,
     data  |-> [f \in 1..Prod(shape) |-> IF pattern = "zeros" THEN 0 ELSE f]]
StarterSet ==
    {NoneArray} \cup {Fill(<<m>> \o d, p) : m \in 1..MaxChains, d \in Dims, p \in Patterns}
ShapeSet == {NoneShape} \cup {<<0>> \o d : d \in Dims}
KeySet == {<<0>>}
EpsilonSet == {2}
ScoreFuncs == {"zero", "pull"}
ParamsSet == {1}
ScaleSet == {2}

Args ==
    [n_chains : 1..MaxChains, n_samples : 1..MaxSamples, key : KeySet,
     epsilon : EpsilonSet, score_func : ScoreFuncs, params : ParamsSet,
     init_scale : ScaleSet, starter_xs : StarterSet, sample_shape : ShapeSet]

\* score_func(params, x): the caller's function, same shape out as in
ScoreFunc(kind, params, v) ==
    IF kind = "zero" THEN Times(0, v) ELSE Times(-params, v)

Sqrt(n) == CHOOSE r \in 0..n : r * r = n

\* ------------------------------------------------------------------ langevin_dynamics
BothNone(a) == a.starter_xs = NoneArray /\ a.sample_shape = NoneShape

\* lines 63-64
ResolveShape(a) ==
    IF a.sample_shape = NoneShape THEN <<0>> \o Rest(a.starter_xs.shape) ELSE a.sample_shape

\* the batch line 67 draws
InitialDraw(a, shape) ==
    Times(a.init_scale, Normal(a.key, <<a.n_chains>> \o Rest(shape)))

ResolveStarterRedraw(a, shape) == InitialDraw(a, shape)

\* lines 65-68
ResolveStarter(a, shape) ==
    IF a.starter_xs = NoneArray THEN InitialDraw(a, shape) ELSE a.starter_xs

DrawsBeforeCheck(a) ==
    IF a.starter_xs = NoneArray THEN SetToBag({a.key}) ELSE EmptyBag

\* the keys random.normal has been called with when line 68 is passed (or line 61 raised)
DrawsAtEntry(a) ==
    IF BothNone(a) THEN EmptyBag
    ELSE IF a.starter_xs = NoneArray THEN SetToBag({a.key})
    ELSE EmptyBag

VmapSizesAtLeast(xs, ks) == Len(xs.shape) >= 1 /\ xs.shape[1] >= Len(ks)

\* vmap maps axis 0 of both arguments: the sizes must agree
VmapSizesOk(xs, ks) == Len(xs.shape) >= 1 /\ xs.shape[1] = Len(ks)

\* the shape of new_x of line 93 for a carry of shape d
NewXShape(d, shape) == BroadcastShape(d, Rest(shape))

StepKeyStateful(i, t) == step_keys[i][t] \o <<calls>>
StepKeyChain(i, t) == keys[i]

\* the key of step t (1..n_samples) of chain i
StepKey(i, t) == step_keys[i][t]

CarryShared(i) == x[1]

\* the carry lax.scan hands to inner for chain i
Carry(i) == x[i]

\* lines 92-94
Inner(prev_x, key, a, shape) ==
    LET draw  == Normal(key, Rest(shape))
        new_x == Add(Add(prev_x, Times(a.epsilon, ScoreFunc(a.score_func, a.params, prev_x))),
                     Times(Sqrt(2 * a.epsilon), draw))
    IN  <<new_x, prev_x>>

\* line 98
ChainResult(final_xs, xs) == <<final_xs, Vstack(xs)>>

VmapOutReversed(o, k) == Stack([i \in 1..Len(o) |-> o[Len(o) + 1 - i][k]])

\* vmap's outputs: the per-chain results stacked in chain order
VmapOut(o, k) == Stack([i \in 1..Len(o) |-> o[i][k]])

Chains == 1..args.n_chains

Init ==
    /\ args \in Args
    /\ pc = "call"
    /\ err = ""
    /\ sample_shape = NoneShape
    /\ starter_xs = NoneArray
    /\ keys = <<>>
    /\ cpc = <<>>
    /\ x = <<>>
    /\ step_keys = <<>>
    /\ ys = <<>>
    /\ outs = <<>>
    /\ result = NoResult
    /\ draws = EmptyBag
    /\ splits = EmptyBag
    /\ score_calls = 0
    /\ prev = NoOutcome
    /\ calls = 1

Raise(e) ==
    /\ pc' = "raised"
    /\ err' = e
    /\ UNCHANGED <<cpc, x, step_keys, ys, outs, result, score_calls, prev, calls, args>>

\* lines 60-68, line 100, and the checks vmap, jit and lax.scan make on the
\* shapes when line 101 traces the chain function
Enter ==
    /\ pc = "call"
    /\ draws' = DrawsAtEntry(args)
    /\ IF BothNone(args)
       THEN /\ Raise("ValueError")
            /\ UNCHANGED <<sample_shape, starter_xs, keys, splits>>
       ELSE LET shape == ResolveShape(args)
                xs    == ResolveStarter(args, shape)
                ks    == Split(args.key, args.n_chains)
            IN  /\ sample_shape' = shape
                /\ starter_xs' = xs
                /\ keys' = ks
                /\ splits' = SetToBag({args.key})
                /\ IF ~VmapSizesOk(xs, ks)
                   THEN Raise("vmap: inconsistent sizes")
                   ELSE IF NewXShape(Rest(xs.shape), shape) = Incompatible
                   THEN Raise("inner: incompatible shapes")
                   ELSE IF NewXShape(Rest(xs.shape), shape) # Rest(xs.shape)
                   THEN Raise("scan: carry shape changed")
                   ELSE /\ pc' = "sampling"
                        /\ cpc' = [i \in Chains |-> "start"]
                        /\ x' = [i \in Chains |-> Row(xs, i)]
                        /\ step_keys' = [i \in Chains |-> <<>>]
                        /\ ys' = [i \in Chains |-> <<>>]
                        /\ outs' = [i \in Chains |-> <<>>]
                        /\ UNCHANGED <<err, result, score_calls, prev, calls, args>>

\* line 96
ChainStart(i) ==
    /\ pc = "sampling"
    /\ cpc[i] = "start"
    /\ step_keys' = [step_keys EXCEPT ![i] = Split(keys[i], args.n_samples)]
    /\ splits' = splits (+) SetToBag({keys[i]})
    /\ cpc' = [cpc EXCEPT ![i] = "scan"]
    /\ UNCHANGED <<args, pc, err, sample_shape, starter_xs, keys, x, ys, outs, result,
                   draws, score_calls, prev, calls>>

\* one iteration of lax.scan (line 97) over inner (lines 85-94)
ScanStep(i) ==
    /\ pc = "sampling"
    /\ cpc[i] = "scan"
    /\ Len(ys[i]) < args.n_samples
    /\ LET key == StepKey(i, Len(ys[i]) + 1)
           r   == Inner(Carry(i), key, args, sample_shape)
       IN  /\ x' = [x EXCEPT ![i] = r[1]]
           /\ ys' = [ys EXCEPT ![i] = Append(@, r[2])]
           /\ draws' = draws (+) SetToBag({key})
    /\ score_calls' = score_calls + 1
    /\ UNCHANGED <<args, pc, err, sample_shape, starter_xs, keys, cpc, step_keys, outs,
                   result, splits, prev, calls>>

\* the end of lax.scan (line 97) and line 98
ChainReturn(i) ==
    /\ pc = "sampling"
    /\ cpc[i] = "scan"
    /\ Len(ys[i]) = args.n_samples
    /\ outs' = [outs EXCEPT ![i] = ChainResult(x[i], Stack(ys[i]))]
    /\ cpc' = [cpc EXCEPT ![i] = "done"]
    /\ UNCHANGED <<args, pc, err, sample_shape, starter_xs, keys, x, step_keys, ys, result,
                   draws, splits, score_calls, prev, calls>>

\* the end of vmap (line 101) and line 102
Return ==
    /\ pc = "sampling"
    /\ \A i \in Chains : cpc[i] = "done"
    /\ result' = <<starter_xs, VmapOut(outs, 1), VmapOut(outs, 2)>>
    /\ pc' = "returned"
    /\ UNCHANGED <<args, err, sample_shape, starter_xs, keys, cpc, x, step_keys, ys, outs,
                   draws, splits, score_calls, prev, calls>>

\* a second call with the same arguments: every local is created anew
CallAgain ==
    /\ pc \in {"returned", "raised"}
    /\ calls = 1
    /\ prev' = [pc |-> pc, err |-> err, result |-> result]
    /\ calls' = 2
    /\ pc' = "call"
    /\ err' = ""
    /\ sample_shape' = NoneShape
    /\ starter_xs' = NoneArray
    /\ keys' = <<>>
    /\ cpc' = <<>>
    /\ x' = <<>>
    /\ step_keys' = <<>>
    /\ ys' = <<>>
    /\ outs' = <<>>
    /\ result' = NoResult
    /\ draws' = EmptyBag
    /\ splits' = EmptyBag
    /\ score_calls' = 0
    /\ UNCHANGED args

Next ==
    \/ Enter
    \/ \E i \in DOMAIN cpc : ChainStart(i)
    \/ \E i \in DOMAIN cpc : ScanStep(i)
    \/ \E i \in DOMAIN cpc : ChainReturn(i)
    \/ Return
    \/ CallAgain

Spec == Init /\ [][Next]_vars

\* ------------------------------------------------------------------ reference definitions
\* the starting batch the call is to use
StartingBatch ==
    IF args.starter_xs # NoneArray THEN args.starter_xs
    ELSE Times(args.init_scale,
               Normal(args.key, <<args.n_chains>> \o Rest(args.sample_shape)))

\* <<x_0, ..., x_t>>: x_s is the step integrator applied to x_{s-1} with the draw
\* from the s-th of the n_samples keys the chain's key splits into
RECURSIVE States(_, _, _)
States(x0, key, t) ==
    IF t = 0 THEN <<x0>>
    ELSE LET before == States(x0, key, t - 1)
         IN  Append(before,
                    Inner(before[t], Split(key, args.n_samples)[t], args,
                          ResolveShape(args))[1])

\* the chain driver on the i-th starting state and the i-th key
ChainOf(i) ==
    LET x0  == Row(StartingBatch, i)
        key == Split(args.key, args.n_chains)[i]
        all == States(x0, key, args.n_samples)
    IN  <<all[args.n_samples + 1], Vstack(Stack(SubSeq(all, 1, args.n_samples)))>>

\* the chains run one after another in index order 1..n
RECURSIVE Sequential(_)
Sequential(n) == IF n = 0 THEN <<>> ELSE Append(Sequential(n - 1), ChainOf(n))

Outcome == [pc |-> pc, err |-> err, result |-> result]

\* ------------------------------------------------------------------ claims

\* C1: a finished chain returns final_state = x_T and a trajectory of exactly T
\* entries, the entry at index t being x_t (t = 0..T-1).
C1_TrajectoryIsPreUpdateStates ==
    \A i \in DOMAIN cpc :
        cpc[i] = "done" =>
            LET x0 == Row(starter_xs, i)
                T  == args.n_samples
                xt == States(x0, keys[i], T)
            IN  /\ outs[i][1] = xt[T + 1]
                /\ outs[i][2].shape[1] = T
                /\ \A t \in 1..T : Row(outs[i][2], t).data = xt[t].data

\* C2: the returned arrays have the shapes (n_chains, *D), (n_chains, *D) and
\* (n_chains, n_samples, *D), D the per-sample shape of any rank.
C2_ShapeInvariants ==
    pc = "returned" =>
        LET D == Rest(starter_xs.shape)
        IN  /\ result[1].shape = <<args.n_chains>> \o D
            /\ result[2].shape = <<args.n_chains>> \o D
            /\ result[3].shape = <<args.n_chains, args.n_samples>> \o D

\* C3 as stated: with starter_xs and sample_shape both None the call raises
\* ConfigurationError before any key is split, any noise is drawn or score_func is
\* evaluated, and returns nothing.
C3_RaisesConfigurationError ==
    (BothNone(args) /\ pc # "call") =>
        /\ pc = "raised" /\ err = "ConfigurationError"
        /\ draws = EmptyBag /\ splits = EmptyBag /\ score_calls = 0
        /\ result = NoResult

\* C3 as amended: with starter_xs and sample_shape both None the call raises
\* ValueError before any key is split, any noise is drawn or score_func is
\* evaluated, and returns nothing.
C3_RaisesValueError ==
    (BothNone(args) /\ pc # "call") =>
        /\ pc = "raised" /\ err = "ValueError"
        /\ draws = EmptyBag /\ splits = EmptyBag /\ score_calls = 0
        /\ result = NoResult

C3_Witness == BothNone(args) /\ pc = "raised"

\* C4: the first element returned is the starting batch, unchanged by sampling:
\* the caller's starter_xs when supplied, else the batch the initializer drew.
C4_StartingBatchUnchanged ==
    /\ pc \in {"sampling", "returned"} => starter_xs = StartingBatch
    /\ pc = "returned" => result[1] = StartingBatch

C4_Witness ==
    /\ pc = "returned"
    /\ args.starter_xs # NoneArray
    /\ result[1] = args.starter_xs
    /\ result[2] # result[1]

\* C5: row i of each returned array is the chain driver's result on the i-th
\* starting state with the i-th key of the split of the top-level key.
C5_RowsFollowChainIndex ==
    pc = "returned" =>
        \A i \in Chains :
            /\ Row(result[1], i) = Row(StartingBatch, i)
            /\ Row(result[2], i) = ChainOf(i)[1]
            /\ Row(result[3], i) = ChainOf(i)[2]

C5_Witness ==
    /\ pc = "returned"
    /\ args.n_chains >= 2
    /\ Row(result[3], 1) # Row(result[3], 2)

\* C6: a second call with the same arguments ends as the first did, with the same
\* three arrays.
C6_Deterministic ==
    (calls = 2 /\ pc \in {"returned", "raised"}) => Outcome = prev

C6_Witness ==
    /\ calls = 2
    /\ pc = "returned"
    /\ args.n_chains >= 2
    /\ args.starter_xs = NoneArray
    /\ result[2] # result[1]

\* C7: in every interleaving of the chains' steps each chain's state depends on its
\* own steps alone, and the call ends with the final_samples and samples of the
\* chains run one after another in index order.
C7_InterleavingsAgree ==
    /\ pc = "sampling" =>
          \A i \in Chains :
              LET xt == States(Row(StartingBatch, i), keys[i], Len(ys[i]))
              IN  x[i] = xt[Len(ys[i]) + 1] /\ ys[i] = SubSeq(xt, 1, Len(ys[i]))
    /\ pc = "returned" =>
          LET seq == Sequential(args.n_chains)
          IN  /\ result[2] = Stack([i \in Chains |-> seq[i][1]])
              /\ result[3] = Stack([i \in Chains |-> seq[i][2]])

\* a chain that has finished while another has not yet started
C7_Witness ==
    /\ pc = "sampling"
    /\ \E i, j \in Chains : i > j /\ cpc[i] = "done" /\ cpc[j] = "start"

\* C8: a supplied starter_xs whose leading dimension differs from n_chains is
\* rejected and nothing is returned; one whose leading dimension is n_chains is the
\* starting batch itself, and no initial Gaussian sample is drawn.
C8_LeadingDimensionChecked ==
    (args.starter_xs # NoneArray /\ pc # "call") =>
        /\ args.starter_xs.shape[1] # args.n_chains =>
              pc = "raised" /\ result = NoResult /\ score_calls = 0
        /\ args.starter_xs.shape[1] = args.n_chains =>
              /\ starter_xs = args.starter_xs
              /\ CopiesIn(args.key, draws) = 0
              /\ \A i \in DOMAIN cpc : cpc[i] = "start" => x[i] = Row(args.starter_xs, i)

C8_Witness ==
    /\ args.starter_xs # NoneArray
    /\ args.starter_xs.shape[1] # args.n_chains
    /\ pc = "raised"

\* C9: at every step of every chain the noise draw has the shape of the chain's
\* current state.
C9_NoiseHasStateShape ==
    pc = "sampling" => \A i \in Chains : Rest(sample_shape) = x[i].shape

\* C10: without starter_xs the top-level key is drawn from once and split once;
\* a per-chain key is split and never drawn from; a per-step key is never split
\* and is drawn from exactly once, by its own step.
C10_KeyUse ==
    /\ (args.starter_xs = NoneArray /\ pc \in {"sampling", "returned"}) =>
          CopiesIn(args.key, draws) = 1 /\ CopiesIn(args.key, splits) = 1
    /\ \A i \in DOMAIN cpc :
          /\ CopiesIn(keys[i], draws) = 0
          /\ CopiesIn(keys[i], splits) = (IF cpc[i] = "start" THEN 0 ELSE 1)
          /\ \A t \in DOMAIN step_keys[i] :
                /\ CopiesIn(step_keys[i][t], splits) = 0
                /\ CopiesIn(step_keys[i][t], draws) = (IF t <= Len(ys[i]) THEN 1 ELSE 0)

C10_Witness ==
    /\ pc = "returned"
    /\ args.starter_xs = NoneArray
    /\ args.n_samples >= 2
    /\ \A i \in Chains : \A t \in 1..args.n_samples : CopiesIn(step_keys[i][t], draws) = 1

====
